---- MODULE Spec2Model ----
(***************************************************************************)
(* Frame-extraction-and-upload pipeline of athleticAI.                     *)
(*                                                                         *)
(*   - the server job: POST /api/process-video (download, ffmpeg, upload   *)
(*     of the frames, delete of the source, removal of the scratch dir);   *)
(*   - the client sampler: extractVideoFrames (seek, draw, toBlob);        *)
(*   - the client job: handleFiles (extract, upload loop, delete, state);  *)
(*   - the removal of a job's scratch directory, applied repeatedly;       *)
(*   - the upload page: the list of files, the validation loop of          *)
(*     handleFiles, removeFile, startTrimming and handleTrimComplete;      *)
(*   - the video trimmer: handleLoadedMetadata, handleStartTimeChange.     *)
(*                                                                         *)
(* Each component has its own specification; the variables of the other    *)
(* components stay at their initial values under it.                       *)
(***************************************************************************)
EXTENDS Integers, Sequences, FiniteSets, TLC

\* ---------------------------------------------------------------- bounds
\* largest number of frame files one ffmpeg run writes in the model
MaxFfmpegFrames == 3

\* largest options.maxFrames drawn
MaxFramesOption == 4

\* largest number of frames one client extraction hands to the upload loop
MaxClientFrames == 4

\* largest number of times the removal of one job's workspace is invoked
MaxCleanups == 3

\* largest number of files in the FileList handed to handleFiles
MaxBatch == 2

\* largest number of handleStartTimeChange calls on one trimmer
MaxStartTimeChanges == 3

\* ------------------------------------------------------------ server job
VARIABLES
    pc,          \* position of the POST handler
    tmpDir,      \* the handler's local `tmpDir`: "undefined" or the path
    dirExists,   \* file system: the scratch directory exists
    dirEntries,  \* file system: names in the scratch directory
    frameFiles,  \* the filtered directory listing, in listing order
    fileIdx,     \* position of the for-of loop in frameFiles
    frameUrls,   \* the handler's `frameUrls`
    puts,        \* storage: every put(...) issued, with its outcome
    delCalls,    \* storage: number of del(url) calls issued
    srcDeleted,  \* storage: the source blob is gone
    srcFetched,  \* the download of the source succeeded
    ffmpegRuns,  \* number of ffmpeg(...).run() calls
    rmCalls,     \* number of fs.rm(tmpDir) calls
    rmFailed,    \* the fs.rm call threw
    fault,       \* the step whose error reached the catch block, or "none"
    response     \* the response returned: [status, frames, framesExtracted]

serverVars == <<pc, tmpDir, dirExists, dirEntries, frameFiles, fileIdx,
                frameUrls, puts, delCalls, srcDeleted, srcFetched,
                ffmpegRuns, rmCalls, rmFailed, fault, response>>

\* -------------------------------------------------- extractVideoFrames
VARIABLES
    xpc,                   \* position of one extractVideoFrames call
    promise,               \* state of the returned promise
    duration,              \* video.duration, in ticks
    fps,                   \* options.fps
    maxFrames,             \* options.maxFrames
    totalFramesToExtract,  \* the closure's `totalFramesToExtract`
    frameNumber,           \* the closure's `frameNumber`
    currentTime,           \* the closure's `currentTime`, in ticks
    videoCurrentTime,      \* video.currentTime, in ticks
    frames,                \* the closure's `frames`
    seeks,                 \* every time assigned to video.currentTime, in order
    errored                \* the video element has fired its error event

extractVars == <<xpc, promise, duration, fps, maxFrames, totalFramesToExtract,
                 frameNumber, currentTime, videoCurrentTime, frames, seeks, errored>>

\* ------------------------------------- client job (handleFiles, one video)
VARIABLES
    cpc,             \* position of the promise chain started for the file
    entry,           \* the file's UploadedFile entry in `files`
    clientFrames,    \* number of frames extractVideoFrames resolved with
    frameIdx,        \* position of the for-of loop over frames.entries()
    clientFrameUrls, \* the chain's local `frameUrls`
    uploadRequests,  \* every POST /api/upload?filename=frames/... issued
    deleteRequests,  \* number of DELETE /api/delete-blob requests issued
    deleteFailed,    \* the DELETE request threw
    listed           \* the file's entry is still in `files` (not removed)

clientVars == <<cpc, entry, clientFrames, frameIdx, clientFrameUrls, uploadRequests,
                deleteRequests, deleteFailed, listed>>

\* ------------------------------- storage keys of two jobs of the same kind
VARIABLES
    jobKind,        \* "client": two handleFiles chains; "server": two POST jobs
    suffixDefault,  \* the storage library adds a random suffix when not told
    jobFrameCount,  \* per job, the number of frames it has to write
    jobFrameIdx,    \* per job, the next frame of its upload loop
    writeRequests   \* every put(...) of a frame: job, pathname, suffix

keyVars == <<jobKind, suffixDefault, jobFrameCount, jobFrameIdx, writeRequests>>

\* ------------------------------ removal of one job's workspace, repeated
VARIABLES
    fsPaths,        \* file system: the paths that exist
    cleanupLog,     \* per invocation of the removal: what fs.rm found and did
    cleanupRaised   \* an error has escaped the removal block

cleanupVars == <<fsPaths, cleanupLog, cleanupRaised>>

\* ------------------------- the configuration sent with a server job request
VARIABLES
    bodyMaxFrames   \* the maximum frame count named in the request body

requestVars == <<bodyMaxFrames>>

\* ------------------------------------ the upload page and its list of files
VARIABLES
    pageKind,       \* "frames": the page that extracts frames; "trimming": the
                    \* page that offers to trim long videos
    batch,          \* the FileList handed to handleFiles: the kind of each file
    batchIdx,       \* position of the for-of loop of handleFiles
    newFiles,       \* the local `newFiles` of handleFiles
    files,          \* the React state `files`
    inflight,       \* the promise chains that have not settled yet
    uploadsStarted, \* every file handed to uploadToBlob, in order
    recorded        \* per settled upload of a trimmed file: where its result went

pageVars == <<pageKind, batch, batchIdx, newFiles, files, inflight, uploadsStarted,
              recorded>>

\* ------------------------------------------------------ the video trimmer
VARIABLES
    videoDuration,     \* video.duration of the file given to the trimmer
    metadataLoaded,    \* the loadedmetadata event has been handled
    trimDuration,      \* the trimmer's state `duration`
    startTime,         \* the trimmer's state `startTime`
    endTime,           \* the trimmer's state `endTime`
    trimCurrentTime,   \* the trimmer's state `currentTime`
    startTimeChanges   \* number of handleStartTimeChange calls so far

trimmerVars == <<videoDuration, metadataLoaded, trimDuration, startTime, endTime,
                 trimCurrentTime, startTimeChanges>>

vars == <<serverVars, extractVars, clientVars, keyVars, cleanupVars, requestVars,
          pageVars, trimmerVars>>

\* what each component leaves alone
notServer ==
    <<extractVars, clientVars, keyVars, cleanupVars, requestVars, pageVars, trimmerVars>>
notExtract ==
    <<serverVars, clientVars, keyVars, cleanupVars, requestVars, pageVars, trimmerVars>>
notClient ==
    <<serverVars, extractVars, keyVars, cleanupVars, requestVars, pageVars, trimmerVars>>
notKeys ==
    <<serverVars, extractVars, clientVars, cleanupVars, requestVars, pageVars, trimmerVars>>
notCleanup ==
    <<serverVars, extractVars, clientVars, keyVars, requestVars, pageVars, trimmerVars>>
notPage ==
    <<serverVars, extractVars, clientVars, keyVars, cleanupVars, requestVars, trimmerVars>>
notTrimmer ==
    <<serverVars, extractVars, clientVars, keyVars, cleanupVars, requestVars, pageVars>>
notPipeline ==
    <<serverVars, keyVars, cleanupVars, requestVars, pageVars, trimmerVars>>

\* 'input-video.mp4' is file 0; 'frame_0000n.jpg' is file n (n >= 1)
InputFile == 0

\* file.startsWith('frame_')
IsFrameFile(file) == file >= 1

NoResponse == [status |-> 0, frames |-> <<>>, framesExtracted |-> 0]

\* every ordering of a finite set, as sequences: the order of fs.readdir is
\* whatever the file system returns
Orderings(S) ==
    {f \in [1..Cardinality(S) -> S] : \A i, j \in 1..Cardinality(S) : i # j => f[i] # f[j]}

\* no maximum frame count is of interest: the body names the least one
RequestIdle == bodyMaxFrames = 1

\* the request body of a job configured with a maximum frame count; the
\* handler destructures url, outputFolder and fps only and never reads it
RequestInit == bodyMaxFrames \in 1..MaxFramesOption

ServerInit ==
    /\ pc = "start"
    /\ tmpDir = "undefined"
    /\ dirExists = FALSE
    /\ dirEntries = {}
    /\ frameFiles = <<>>
    /\ fileIdx = 1
    /\ frameUrls = <<>>
    /\ puts = <<>>
    /\ delCalls = 0
    /\ srcDeleted = FALSE
    /\ srcFetched = FALSE
    /\ ffmpegRuns = 0
    /\ rmCalls = 0
    /\ rmFailed = FALSE
    /\ fault = "none"
    /\ response = NoResponse

\* a throw inside the try block: control goes to the catch block
Throw(step) ==
    /\ fault' = step
    /\ pc' = "catch"

\* ParseBody, had the scratch directory been created before the url check
ParseBody_DirFirst ==
    /\ pc = "start"
    /\ \E body \in {"bad-json", "no-url", "url"} :
         \/ /\ body = "bad-json"
            /\ Throw("json")
            /\ UNCHANGED <<response, tmpDir, dirExists>>
         \/ /\ body = "no-url"
            /\ tmpDir' = "athai"
            /\ dirExists' = TRUE
            /\ response' = [NoResponse EXCEPT !.status = 400]
            /\ pc' = "finally"
            /\ UNCHANGED fault
         \/ /\ body = "url"
            /\ pc' = "validate"
            /\ UNCHANGED <<fault, response, tmpDir, dirExists>>
    /\ UNCHANGED notServer
    /\ UNCHANGED <<dirEntries, frameFiles, fileIdx, frameUrls,
                   puts, delCalls, srcDeleted, srcFetched, ffmpegRuns, rmCalls, rmFailed>>

\* request.json() and the `if (!url)` early return
ParseBody ==
    /\ pc = "start"
    /\ \E body \in {"bad-json", "no-url", "url"} :
         \/ /\ body = "bad-json"
            /\ Throw("json")
            /\ UNCHANGED response
         \/ /\ body = "no-url"
            /\ response' = [NoResponse EXCEPT !.status = 400]
            /\ pc' = "finally"
            /\ UNCHANGED fault
         \/ /\ body = "url"
            /\ pc' = "validate"
            /\ UNCHANGED <<fault, response>>
    /\ UNCHANGED notServer
    /\ UNCHANGED <<tmpDir, dirExists, dirEntries, frameFiles, fileIdx, frameUrls,
                   puts, delCalls, srcDeleted, srcFetched, ffmpegRuns, rmCalls, rmFailed>>

\* new URL(url)
ValidateUrl ==
    /\ pc = "validate"
    /\ \E wellFormed \in BOOLEAN :
         IF wellFormed
           THEN pc' = "fetch" /\ UNCHANGED fault
           ELSE Throw("url")
    /\ UNCHANGED notServer
    /\ UNCHANGED <<tmpDir, dirExists, dirEntries, frameFiles, fileIdx, frameUrls,
                   puts, delCalls, srcDeleted, srcFetched, ffmpegRuns, rmCalls,
                   rmFailed, response>>

\* FetchVideo, had the scratch directory been created before the download
FetchVideo_DirFirst ==
    /\ pc = "fetch"
    /\ tmpDir' = "athai"
    /\ dirExists' = TRUE
    /\ dirEntries' = {}
    /\ \E outcome \in {"ok", "network", "http", "body"} :
         IF outcome = "ok"
           THEN /\ srcFetched' = TRUE
                /\ pc' = "writeFile"
                /\ UNCHANGED fault
           ELSE /\ Throw(outcome)
                /\ UNCHANGED srcFetched
    /\ UNCHANGED notServer
    /\ UNCHANGED <<frameFiles, fileIdx, frameUrls, puts, delCalls, srcDeleted,
                   ffmpegRuns, rmCalls, rmFailed, response>>

\* fetch(url), the response.ok test and response.arrayBuffer()
FetchVideo ==
    /\ pc = "fetch"
    /\ \E outcome \in {"ok", "network", "http", "body"} :
         IF outcome = "ok"
           THEN /\ srcFetched' = TRUE
                /\ pc' = "mkdtemp"
                /\ UNCHANGED fault
           ELSE /\ Throw(outcome)
                /\ UNCHANGED srcFetched
    /\ UNCHANGED notServer
    /\ UNCHANGED <<tmpDir, dirExists, dirEntries, frameFiles, fileIdx, frameUrls,
                   puts, delCalls, srcDeleted, ffmpegRuns, rmCalls, rmFailed, response>>

\* tmpDir = await fs.mkdtemp(...)
Mkdtemp ==
    /\ pc = "mkdtemp"
    /\ \E ok \in BOOLEAN :
         IF ok
           THEN /\ tmpDir' = "athai"
                /\ dirExists' = TRUE
                /\ dirEntries' = {}
                /\ pc' = "writeFile"
                /\ UNCHANGED fault
           ELSE /\ Throw("mkdtemp")
                /\ UNCHANGED <<tmpDir, dirExists, dirEntries>>
    /\ UNCHANGED notServer
    /\ UNCHANGED <<frameFiles, fileIdx, frameUrls, puts, delCalls, srcDeleted,
                   srcFetched, ffmpegRuns, rmCalls, rmFailed, response>>

\* fs.writeFile(inputPath, ...); a failed write may leave the file behind
WriteInput ==
    /\ pc = "writeFile"
    /\ \E ok \in BOOLEAN, left \in BOOLEAN :
         /\ dirEntries' = IF ok \/ left THEN dirEntries \cup {InputFile} ELSE dirEntries
         /\ IF ok
              THEN pc' = "ffmpeg" /\ UNCHANGED fault
              ELSE Throw("writeFile")
    /\ UNCHANGED notServer
    /\ UNCHANGED <<tmpDir, dirExists, frameFiles, fileIdx, frameUrls, puts, delCalls,
                   srcDeleted, srcFetched, ffmpegRuns, rmCalls, rmFailed, response>>

\* the ffmpeg promise: 'end' resolves, 'error' rejects; n frame files are
\* on disk in either case
RunFfmpeg ==
    /\ pc = "ffmpeg"
    /\ ffmpegRuns' = ffmpegRuns + 1
    /\ \E n \in 0..MaxFfmpegFrames, ended \in BOOLEAN :
         /\ dirEntries' = dirEntries \cup (1..n)
         /\ IF ended
              THEN pc' = "readdir" /\ UNCHANGED fault
              ELSE Throw("ffmpeg")
    /\ UNCHANGED notServer
    /\ UNCHANGED <<tmpDir, dirExists, frameFiles, fileIdx, frameUrls, puts, delCalls,
                   srcDeleted, srcFetched, rmCalls, rmFailed, response>>

\* Readdir, had the listing not been filtered by name
Readdir_NoFilter ==
    /\ pc = "readdir"
    /\ \E ok \in BOOLEAN :
         IF ok
           THEN /\ \E listing \in Orderings(dirEntries) :
                     /\ frameFiles' = listing
                     /\ pc' = IF Len(listing) = 0 THEN "del" ELSE "upload"
                /\ fileIdx' = 1
                /\ frameUrls' = <<>>
                /\ UNCHANGED fault
           ELSE /\ Throw("readdir")
                /\ UNCHANGED <<frameFiles, fileIdx, frameUrls>>
    /\ UNCHANGED notServer
    /\ UNCHANGED <<tmpDir, dirExists, dirEntries, puts, delCalls, srcDeleted,
                   srcFetched, ffmpegRuns, rmCalls, rmFailed, response>>

\* fs.readdir(tmpDir), the filter and `frameUrls = []`
Readdir ==
    /\ pc = "readdir"
    /\ \E ok \in BOOLEAN :
         IF ok
           THEN /\ \E listing \in Orderings({f \in dirEntries : IsFrameFile(f)}) :
                     /\ frameFiles' = listing
                     /\ pc' = IF Len(listing) = 0 THEN "del" ELSE "upload"
                /\ fileIdx' = 1
                /\ frameUrls' = <<>>
                /\ UNCHANGED fault
           ELSE /\ Throw("readdir")
                /\ UNCHANGED <<frameFiles, fileIdx, frameUrls>>
    /\ UNCHANGED notServer
    /\ UNCHANGED <<tmpDir, dirExists, dirEntries, puts, delCalls, srcDeleted,
                   srcFetched, ffmpegRuns, rmCalls, rmFailed, response>>

\* UploadFrame, had a failed put sent the job back to run ffmpeg again
UploadFrame_Resample ==
    /\ pc = "upload"
    /\ fileIdx <= Len(frameFiles)
    /\ \E outcome \in {"ok", "readFile", "put"} :
         LET file == frameFiles[fileIdx] IN
         /\ puts' = IF outcome = "readFile" THEN puts
                    ELSE Append(puts, [file |-> file, ok |-> outcome = "ok"])
         /\ IF outcome = "ok"
              THEN /\ frameUrls' = Append(frameUrls, file)
                   /\ fileIdx' = fileIdx + 1
                   /\ pc' = IF fileIdx + 1 > Len(frameFiles) THEN "del" ELSE "upload"
                   /\ UNCHANGED fault
              ELSE /\ IF outcome = "put" /\ ffmpegRuns < 2
                        THEN pc' = "ffmpeg" /\ UNCHANGED fault
                        ELSE Throw(outcome)
                   /\ UNCHANGED <<frameUrls, fileIdx>>
    /\ UNCHANGED notServer
    /\ UNCHANGED <<tmpDir, dirExists, dirEntries, frameFiles, delCalls, srcDeleted,
                   srcFetched, ffmpegRuns, rmCalls, rmFailed, response>>

\* UploadFrame, had a failed put been skipped and the loop gone on to the
\* next file
UploadFrame_SkipsFailed ==
    /\ pc = "upload"
    /\ fileIdx <= Len(frameFiles)
    /\ \E outcome \in {"ok", "readFile", "put"} :
         LET file == frameFiles[fileIdx] IN
         /\ puts' = IF outcome = "readFile" THEN puts
                    ELSE Append(puts, [file |-> file, ok |-> outcome = "ok"])
         /\ IF outcome = "readFile"
              THEN /\ Throw(outcome)
                   /\ UNCHANGED <<frameUrls, fileIdx>>
              ELSE /\ frameUrls' = IF outcome = "ok" THEN Append(frameUrls, file)
                                    ELSE frameUrls
                   /\ fileIdx' = fileIdx + 1
                   /\ pc' = IF fileIdx + 1 > Len(frameFiles) THEN "del" ELSE "upload"
                   /\ UNCHANGED fault
    /\ UNCHANGED notServer
    /\ UNCHANGED <<tmpDir, dirExists, dirEntries, frameFiles, delCalls, srcDeleted,
                   srcFetched, ffmpegRuns, rmCalls, rmFailed, response>>

\* one iteration of `for (const file of frameFiles)`: readFile, put, push
UploadFrame ==
    /\ pc = "upload"
    /\ fileIdx <= Len(frameFiles)
    /\ \E outcome \in {"ok", "readFile", "put"} :
         LET file == frameFiles[fileIdx] IN
         /\ puts' = IF outcome = "readFile" THEN puts
                    ELSE Append(puts, [file |-> file, ok |-> outcome = "ok"])
         /\ IF outcome = "ok"
              THEN /\ frameUrls' = Append(frameUrls, file)
                   /\ fileIdx' = fileIdx + 1
                   /\ pc' = IF fileIdx + 1 > Len(frameFiles) THEN "del" ELSE "upload"
                   /\ UNCHANGED fault
              ELSE /\ Throw(outcome)
                   /\ UNCHANGED <<frameUrls, fileIdx>>
    /\ UNCHANGED notServer
    /\ UNCHANGED <<tmpDir, dirExists, dirEntries, frameFiles, delCalls, srcDeleted,
                   srcFetched, ffmpegRuns, rmCalls, rmFailed, response>>

\* DeleteAndRespond, had del(url) not been wrapped in its own try/catch
DeleteAndRespond_Escalates ==
    /\ pc = "del"
    /\ delCalls' = delCalls + 1
    /\ \E ok \in BOOLEAN :
         /\ srcDeleted' = ok
         /\ IF ok
              THEN /\ response' = [status |-> 200, frames |-> frameUrls,
                                   framesExtracted |-> Len(frameUrls)]
                   /\ pc' = "finally"
                   /\ UNCHANGED fault
              ELSE /\ Throw("del")
                   /\ UNCHANGED response
    /\ UNCHANGED notServer
    /\ UNCHANGED <<tmpDir, dirExists, dirEntries, frameFiles, fileIdx, frameUrls, puts,
                   srcFetched, ffmpegRuns, rmCalls, rmFailed>>

\* try { await del(url) } catch { warn }, then the success response
DeleteAndRespond ==
    /\ pc = "del"
    /\ delCalls' = delCalls + 1
    /\ \E ok \in BOOLEAN : srcDeleted' = ok
    /\ response' = [status |-> 200, frames |-> frameUrls,
                    framesExtracted |-> Len(frameUrls)]
    /\ pc' = "finally"
    /\ UNCHANGED notServer
    /\ UNCHANGED <<tmpDir, dirExists, dirEntries, frameFiles, fileIdx, frameUrls, puts,
                   srcFetched, ffmpegRuns, rmCalls, rmFailed, fault>>

\* Catch, had it also deleted the source blob on failure
Catch_DeletesSource ==
    /\ pc = "catch"
    /\ response' = [NoResponse EXCEPT !.status = 500]
    /\ delCalls' = delCalls + 1
    /\ pc' = "finally"
    /\ UNCHANGED notServer
    /\ UNCHANGED <<tmpDir, dirExists, dirEntries, frameFiles, fileIdx, frameUrls, puts,
                   srcDeleted, srcFetched, ffmpegRuns, rmCalls, rmFailed, fault>>

\* Catch, had it removed the scratch directory itself, before the finally
\* block removes it again
Catch_AlsoCleans ==
    /\ pc = "catch"
    /\ response' = [NoResponse EXCEPT !.status = 500]
    /\ IF tmpDir # "undefined"
         THEN /\ rmCalls' = rmCalls + 1
              /\ dirExists' = FALSE
              /\ dirEntries' = {}
         ELSE UNCHANGED <<rmCalls, dirExists, dirEntries>>
    /\ pc' = "finally"
    /\ UNCHANGED notServer
    /\ UNCHANGED <<tmpDir, frameFiles, fileIdx, frameUrls, puts, delCalls, srcDeleted,
                   srcFetched, ffmpegRuns, rmFailed, fault>>

\* Catch, had it swallowed the error and answered with an empty frame list
Catch_ReportsSuccess ==
    /\ pc = "catch"
    /\ response' = [NoResponse EXCEPT !.status = 200]
    /\ pc' = "finally"
    /\ UNCHANGED notServer
    /\ UNCHANGED <<tmpDir, dirExists, dirEntries, frameFiles, fileIdx, frameUrls, puts,
                   delCalls, srcDeleted, srcFetched, ffmpegRuns, rmCalls, rmFailed, fault>>

\* catch (error): status 500 with the error's message
Catch ==
    /\ pc = "catch"
    /\ response' = [NoResponse EXCEPT !.status = 500]
    /\ pc' = "finally"
    /\ UNCHANGED notServer
    /\ UNCHANGED <<tmpDir, dirExists, dirEntries, frameFiles, fileIdx, frameUrls, puts,
                   delCalls, srcDeleted, srcFetched, ffmpegRuns, rmCalls, rmFailed, fault>>

\* Finally, had fs.rm not been wrapped in its own try/catch: its error
\* escapes the handler and replaces the response
Finally_Escalates ==
    /\ pc = "finally"
    /\ IF tmpDir # "undefined"
         THEN /\ rmCalls' = rmCalls + 1
              /\ \E ok \in BOOLEAN :
                   IF ok
                     THEN /\ dirExists' = FALSE
                          /\ dirEntries' = {}
                          /\ UNCHANGED <<rmFailed, response>>
                     ELSE /\ rmFailed' = TRUE
                          /\ response' = NoResponse
                          /\ UNCHANGED <<dirExists, dirEntries>>
         ELSE UNCHANGED <<rmCalls, rmFailed, dirExists, dirEntries, response>>
    /\ pc' = "done"
    /\ UNCHANGED notServer
    /\ UNCHANGED <<tmpDir, frameFiles, fileIdx, frameUrls, puts, delCalls, srcDeleted,
                   srcFetched, ffmpegRuns, fault>>

\* Finally, had the removal been the last statement of the try block
\* instead of a finally block: it runs on the success path only
Finally_OnlyOnSuccess ==
    /\ pc = "finally"
    /\ IF tmpDir # "undefined" /\ response.status = 200
         THEN /\ rmCalls' = rmCalls + 1
              /\ \E ok \in BOOLEAN :
                   IF ok
                     THEN /\ dirExists' = FALSE
                          /\ dirEntries' = {}
                          /\ UNCHANGED rmFailed
                     ELSE /\ rmFailed' = TRUE
                          /\ UNCHANGED <<dirExists, dirEntries>>
         ELSE UNCHANGED <<rmCalls, rmFailed, dirExists, dirEntries>>
    /\ pc' = "done"
    /\ UNCHANGED notServer
    /\ UNCHANGED <<tmpDir, frameFiles, fileIdx, frameUrls, puts, delCalls, srcDeleted,
                   srcFetched, ffmpegRuns, fault, response>>

\* finally: if (tmpDir) try { fs.rm(tmpDir, recursive, force) } catch { warn }
Finally ==
    /\ pc = "finally"
    /\ IF tmpDir # "undefined"
         THEN /\ rmCalls' = rmCalls + 1
              /\ \E ok \in BOOLEAN :
                   IF ok
                     THEN /\ dirExists' = FALSE
                          /\ dirEntries' = {}
                          /\ UNCHANGED rmFailed
                     ELSE /\ rmFailed' = TRUE
                          /\ UNCHANGED <<dirExists, dirEntries>>
         ELSE UNCHANGED <<rmCalls, rmFailed, dirExists, dirEntries>>
    /\ pc' = "done"
    /\ UNCHANGED notServer
    /\ UNCHANGED <<tmpDir, frameFiles, fileIdx, frameUrls, puts, delCalls, srcDeleted,
                   srcFetched, ffmpegRuns, fault, response>>

ServerNext ==
    \/ ParseBody
    \/ ValidateUrl
    \/ FetchVideo
    \/ Mkdtemp
    \/ WriteInput
    \/ RunFfmpeg
    \/ Readdir
    \/ UploadFrame
    \/ DeleteAndRespond
    \/ Catch
    \/ Finally

\* -------------------------------------------------- extractVideoFrames
\* Times are exact multiples of one tick; Epsilon ticks are the 0.001 s of
\* `duration - 0.001`, so a tick is 1/6 ms and every fps drawn divides a second.
Epsilon == 6
TicksPerSecond == 1000 * Epsilon

\* the options.fps values drawn: the default of the server route, and the
\* values the dashboard passes or displays
FpsValues == {1, 2, 30, 2000}

\* the video durations drawn, in ticks: 0 s, 0.5 ms, 1 ms, 2 ms, 1/60 s,
\* 1/30 s, 0.5 s, 1 s, 1.0005 s, 1.5 s, 3 s
Durations == {0, Epsilon \div 2, Epsilon, 2 * Epsilon, 100, 200, 3000, 6000, 6003,
              9000, 18000}

Min(a, b) == IF a <= b THEN a ELSE b
Max(a, b) == IF a >= b THEN a ELSE b

\* Math.ceil(duration * fps), duration in ticks
CeilFrames(d, f) == (d * f + TicksPerSecond - 1) \div TicksPerSecond

\* Math.min(Math.ceil(duration * fps), maxFrames)
TotalFrames(d, f, m) == Min(CeilFrames(d, f), m)

\* 1 / fps, in ticks
FrameInterval(f) == TicksPerSecond \div f

\* SeekTarget, had the time not been held below the duration
SeekTarget_Unclamped(t, d) == t

\* Math.min(currentTime, duration - 0.001)
SeekTarget(t, d) == Min(t, d - Epsilon)

\* the position the media element takes for an assignment to currentTime:
\* the requested time brought into [0, duration]
SeekPosition(t, d) == Max(0, Min(t, d))

ExtractIdle ==
    /\ xpc = "idle"
    /\ promise = "none"
    /\ duration = 0
    /\ fps = 1
    /\ maxFrames = 1
    /\ totalFramesToExtract = 0
    /\ frameNumber = 0
    /\ currentTime = 0
    /\ videoCurrentTime = 0
    /\ frames = <<>>
    /\ seeks = <<>>
    /\ errored = FALSE

\* the state at the call: options destructured, frames = [], frameNumber = 0
ExtractInit ==
    /\ xpc = "called"
    /\ promise = "pending"
    /\ duration \in Durations
    /\ fps \in FpsValues
    /\ maxFrames \in 1..MaxFramesOption
    /\ totalFramesToExtract = 0
    /\ frameNumber = 0
    /\ currentTime = 0
    /\ videoCurrentTime = 0
    /\ frames = <<>>
    /\ seeks = <<>>
    /\ errored = FALSE

\* reject(...) and resolve(...) settle the promise only while it is pending
Settle(outcome) == promise' = IF promise = "pending" THEN outcome ELSE promise

\* ExtractFrame, had it also requested the following sample right away
ExtractFrame_Prefetch(n, t, total) ==
    IF n >= total \/ t >= duration
      THEN /\ Settle("resolved")
           /\ xpc' = "finished"
           /\ UNCHANGED <<videoCurrentTime, seeks>>
      ELSE /\ videoCurrentTime' = SeekPosition(SeekTarget(t, duration), duration)
           /\ seeks' = seeks \o <<SeekTarget(t, duration),
                                  SeekTarget(t + FrameInterval(fps), duration)>>
           /\ xpc' = "seeking"
           /\ UNCHANGED promise

\* extractFrame(), called with the values frameNumber, currentTime and
\* totalFramesToExtract have after the caller's updates
ExtractFrame(n, t, total) ==
    IF n >= total \/ t >= duration
      THEN /\ Settle("resolved")
           /\ xpc' = "finished"
           /\ UNCHANGED <<videoCurrentTime, seeks>>
      ELSE /\ videoCurrentTime' = SeekPosition(SeekTarget(t, duration), duration)
           /\ seeks' = Append(seeks, SeekTarget(t, duration))
           /\ xpc' = "seeking"
           /\ UNCHANGED promise

\* the promise executor: createElement, getContext, video.src, video.load()
StartExtraction ==
    /\ xpc = "called"
    /\ \E ctx \in BOOLEAN :
         IF ctx
           THEN xpc' = "loading" /\ UNCHANGED promise
           ELSE xpc' = "finished" /\ Settle("rejected")
    /\ UNCHANGED <<duration, fps, maxFrames, totalFramesToExtract, frameNumber,
                   currentTime, videoCurrentTime, frames, seeks, errored>>
    /\ UNCHANGED notExtract

\* video.onloadedmetadata
OnLoadedMetadata ==
    /\ xpc = "loading"
    /\ totalFramesToExtract' = TotalFrames(duration, fps, maxFrames)
    /\ currentTime' = 0
    /\ ExtractFrame(frameNumber, 0, TotalFrames(duration, fps, maxFrames))
    /\ UNCHANGED <<duration, fps, maxFrames, frameNumber, frames, errored>>
    /\ UNCHANGED notExtract

\* the error event before onloadedmetadata has installed video.onerror
ErrorWhileLoading ==
    /\ xpc = "loading"
    /\ errored' = TRUE
    /\ xpc' = "hung"
    /\ UNCHANGED <<promise, duration, fps, maxFrames, totalFramesToExtract, frameNumber,
                   currentTime, videoCurrentTime, frames, seeks>>
    /\ UNCHANGED notExtract

\* video.onerror, installed by onloadedmetadata
OnError ==
    /\ xpc \in {"seeking", "encoding"}
    /\ ~errored
    /\ errored' = TRUE
    /\ Settle("rejected")
    /\ UNCHANGED <<xpc, duration, fps, maxFrames, totalFramesToExtract, frameNumber,
                   currentTime, videoCurrentTime, frames, seeks>>
    /\ UNCHANGED notExtract

\* video.onseeked: drawImage and the call of canvas.toBlob
OnSeeked ==
    /\ xpc = "seeking"
    /\ \E drawn \in BOOLEAN :
         IF drawn
           THEN xpc' = "encoding" /\ UNCHANGED promise
           ELSE xpc' = "finished" /\ Settle("rejected")
    /\ UNCHANGED <<duration, fps, maxFrames, totalFramesToExtract, frameNumber,
                   currentTime, videoCurrentTime, frames, seeks, errored>>
    /\ UNCHANGED notExtract

\* PushFrame, had it used frames.unshift
PushFrame_Unshift(blob) ==
    IF blob
      THEN <<[timestamp |-> videoCurrentTime, frameNumber |-> frameNumber + 1]>> \o frames
      ELSE frames

\* frames.push({blob, timestamp, frameNumber}) when the encoder gave a blob
PushFrame(blob) ==
    IF blob
      THEN Append(frames, [timestamp |-> videoCurrentTime, frameNumber |-> frameNumber + 1])
      ELSE frames

\* the toBlob callback
ToBlobCallback ==
    /\ xpc = "encoding"
    /\ \E blob \in BOOLEAN : frames' = PushFrame(blob)
    /\ frameNumber' = frameNumber + 1
    /\ currentTime' = currentTime + FrameInterval(fps)
    /\ ExtractFrame(frameNumber + 1, currentTime + FrameInterval(fps), totalFramesToExtract)
    /\ UNCHANGED <<duration, fps, maxFrames, totalFramesToExtract, errored>>
    /\ UNCHANGED notExtract

ExtractNext ==
    \/ StartExtraction
    \/ OnLoadedMetadata
    \/ ErrorWhileLoading
    \/ OnError
    \/ OnSeeked
    \/ ToBlobCallback

\* ------------------------------------- client job (handleFiles, one video)
\* { file, uploading: true }, with the fields the chain sets later unset
NewEntry ==
    [url |-> "unset", uploading |-> TRUE, processingFrames |-> FALSE, error |-> "unset",
     extractedFrames |-> <<>>, framesExtracted |-> -1]

ClientIdle ==
    /\ cpc = "idle"
    /\ entry = NewEntry
    /\ clientFrames = 0
    /\ frameIdx = 1
    /\ clientFrameUrls = <<>>
    /\ uploadRequests = <<>>
    /\ deleteRequests = 0
    /\ deleteFailed = FALSE
    /\ listed = TRUE

\* the state after handleFiles has validated a video file, started
\* uploadToBlob(file) and appended the entry to `files`
ClientInit ==
    /\ cpc = "uploadToBlob"
    /\ entry = NewEntry
    /\ clientFrames = 0
    /\ frameIdx = 1
    /\ clientFrameUrls = <<>>
    /\ uploadRequests = <<>>
    /\ deleteRequests = 0
    /\ deleteFailed = FALSE
    /\ listed = TRUE

\* setFiles(prev => prev.map(f => f.file === file ? {...} : f)): the update
\* reaches the entry only while the entry is in the list
SetEntry(e) == entry' = IF listed THEN e ELSE entry

\* the catch of the inner try: processingFrames false, 'Frame extraction failed'
ExtractionFailed ==
    /\ SetEntry([entry EXCEPT !.processingFrames = FALSE,
                              !.error = "Frame extraction failed"])
    /\ cpc' = "done"

\* uploadToBlob(file) settles: .then sets url and processingFrames and calls
\* extractVideoFrames; .catch records the upload error
UploadToBlobSettles ==
    /\ cpc = "uploadToBlob"
    /\ \E ok \in BOOLEAN :
         IF ok
           THEN /\ SetEntry([entry EXCEPT !.url = "video", !.uploading = FALSE,
                                          !.processingFrames = TRUE])
                /\ cpc' = "extract"
           ELSE /\ SetEntry([entry EXCEPT !.error = "Upload failed", !.uploading = FALSE])
                /\ cpc' = "done"
    /\ UNCHANGED <<clientFrames, frameIdx, clientFrameUrls, uploadRequests, deleteRequests,
                   deleteFailed, listed>>
    /\ UNCHANGED notClient

\* await extractVideoFrames(...) settles, and `frameUrls = []`
ExtractionSettles ==
    /\ cpc = "extract"
    /\ \E resolved \in BOOLEAN, n \in 0..MaxClientFrames :
         IF resolved
           THEN /\ clientFrames' = n
                /\ cpc' = IF n = 0 THEN "delete" ELSE "frameUpload"
                /\ UNCHANGED entry
           ELSE /\ ExtractionFailed
                /\ UNCHANGED clientFrames
    /\ frameIdx' = 1
    /\ clientFrameUrls' = <<>>
    /\ UNCHANGED <<uploadRequests, deleteRequests, deleteFailed, listed>>
    /\ UNCHANGED notClient

\* one iteration of the frame loop: the POST, and the push when response.ok
UploadFrameRequest ==
    /\ cpc = "frameUpload"
    /\ frameIdx <= clientFrames
    /\ \E outcome \in {"ok", "status", "throw"} :
         /\ uploadRequests' = Append(uploadRequests, [index |-> frameIdx, outcome |-> outcome])
         /\ IF outcome = "throw"
              THEN /\ ExtractionFailed
                   /\ UNCHANGED <<frameIdx, clientFrameUrls>>
              ELSE /\ clientFrameUrls' = IF outcome = "ok"
                                           THEN Append(clientFrameUrls, frameIdx)
                                           ELSE clientFrameUrls
                   /\ frameIdx' = frameIdx + 1
                   /\ cpc' = IF frameIdx + 1 > clientFrames THEN "delete" ELSE "frameUpload"
                   /\ UNCHANGED entry
    /\ UNCHANGED <<clientFrames, deleteRequests, deleteFailed, listed>>
    /\ UNCHANGED notClient

\* the DELETE of the original video (its failure is only warned about) and
\* the final setFiles with extractedFrames and metadata
DeleteAndFinish ==
    /\ cpc = "delete"
    /\ deleteRequests' = deleteRequests + 1
    /\ \E ok \in BOOLEAN : deleteFailed' = ~ok
    /\ SetEntry([entry EXCEPT !.processingFrames = FALSE,
                              !.extractedFrames = clientFrameUrls,
                              !.framesExtracted = Len(clientFrameUrls)])
    /\ cpc' = "done"
    /\ UNCHANGED <<clientFrames, frameIdx, clientFrameUrls, uploadRequests, listed>>
    /\ UNCHANGED notClient

\* removeFile(index) for the file's entry: the entry leaves the list; the
\* promise chain started for the file is not told
RemoveFile ==
    /\ cpc # "idle"
    /\ listed
    /\ listed' = FALSE
    /\ UNCHANGED <<cpc, entry, clientFrames, frameIdx, clientFrameUrls, uploadRequests,
                   deleteRequests, deleteFailed>>
    /\ UNCHANGED notClient

ClientNext ==
    \/ UploadToBlobSettles
    \/ ExtractionSettles
    \/ UploadFrameRequest
    \/ DeleteAndFinish
    \/ RemoveFile

\* ------------------- client pipeline: handleFiles calling extractVideoFrames
\* the options handleFiles passes: fps: 30, maxFrames: 300
CallFps == 30
CallMaxFrames == 300

\* the state after handleFiles has accepted a video file (validateFile lets
\* only durations up to 5 s through): the upload is in flight and
\* extractVideoFrames is not called yet; maxFrames is cut to the model's bound
PipelineInit ==
    /\ ClientInit
    /\ xpc = "idle"
    /\ promise = "none"
    /\ duration \in {d \in Durations : d <= 5 * TicksPerSecond}
    /\ fps = CallFps
    /\ maxFrames = Min(CallMaxFrames, MaxFramesOption)
    /\ totalFramesToExtract = 0
    /\ frameNumber = 0
    /\ currentTime = 0
    /\ videoCurrentTime = 0
    /\ frames = <<>>
    /\ seeks = <<>>
    /\ errored = FALSE

\* uploadToBlob(file) settles: as UploadToBlobSettles, and .then calls
\* extractVideoFrames(file, {fps: 30, maxFrames: 300, quality: 0.8})
StartVideoJob ==
    /\ cpc = "uploadToBlob"
    /\ \E ok \in BOOLEAN :
         IF ok
           THEN /\ SetEntry([entry EXCEPT !.url = "video", !.uploading = FALSE,
                                          !.processingFrames = TRUE])
                /\ cpc' = "extract"
                /\ xpc' = "called"
                /\ promise' = "pending"
           ELSE /\ SetEntry([entry EXCEPT !.error = "Upload failed", !.uploading = FALSE])
                /\ cpc' = "done"
                /\ UNCHANGED <<xpc, promise>>
    /\ UNCHANGED <<clientFrames, frameIdx, clientFrameUrls, uploadRequests, deleteRequests,
                   deleteFailed, listed>>
    /\ UNCHANGED <<duration, fps, maxFrames, totalFramesToExtract, frameNumber,
                   currentTime, videoCurrentTime, frames, seeks, errored>>
    /\ UNCHANGED notPipeline

\* AwaitExtraction, had an empty frame list been treated as a failed
\* extraction
AwaitExtraction_EmptyFails ==
    /\ cpc = "extract"
    /\ promise \in {"resolved", "rejected"}
    /\ IF promise = "resolved" /\ Len(frames) > 0
         THEN /\ clientFrames' = Len(frames)
              /\ cpc' = "frameUpload"
              /\ UNCHANGED entry
         ELSE /\ ExtractionFailed
              /\ UNCHANGED clientFrames
    /\ frameIdx' = 1
    /\ clientFrameUrls' = <<>>
    /\ UNCHANGED <<uploadRequests, deleteRequests, deleteFailed, listed>>
    /\ UNCHANGED notClient

\* `const frames = await extractVideoFrames(...)` continues once the promise
\* has settled: with the resolved list, or into the catch block
AwaitExtraction ==
    /\ cpc = "extract"
    /\ promise \in {"resolved", "rejected"}
    /\ IF promise = "resolved"
         THEN /\ clientFrames' = Len(frames)
              /\ cpc' = IF Len(frames) = 0 THEN "delete" ELSE "frameUpload"
              /\ UNCHANGED entry
         ELSE /\ ExtractionFailed
              /\ UNCHANGED clientFrames
    /\ frameIdx' = 1
    /\ clientFrameUrls' = <<>>
    /\ UNCHANGED <<uploadRequests, deleteRequests, deleteFailed, listed>>
    /\ UNCHANGED notClient

PipelineNext ==
    \/ StartVideoJob
    \/ StartExtraction
    \/ OnLoadedMetadata
    \/ ErrorWhileLoading
    \/ OnError
    \/ OnSeeked
    \/ ToBlobCallback
    \/ AwaitExtraction
    \/ UploadFrameRequest
    \/ DeleteAndFinish
    \/ RemoveFile

\* ------------------------------- storage keys of two jobs of the same kind
JobIds == {1, 2}

\* the decimal digits of a natural number, most significant first
RECURSIVE Digits(_)
Digits(n) == IF n < 10 THEN <<n>> ELSE Append(Digits(n \div 10), n % 10)

\* String.prototype.padStart(width, '0'), and the %0<width>d of ffmpeg's
\* output pattern: zeros in front up to the width, never a cut
RECURSIVE PadStart(_, _)
PadStart(digits, width) ==
    IF Len(digits) >= width THEN digits ELSE PadStart(<<0>> \o digits, width)

\* `frames/${filename}` with filename frame_${String(index + 1).padStart(3, '0')}.jpg;
\* n is index + 1
ClientFramePath(n) == [folder |-> "frames", name |-> PadStart(Digits(n), 3)]

\* `${outputFolder}/${file}` with file frame_%05d.jpg, for the default folder
ServerFramePath(n) == [folder |-> "frames", name |-> PadStart(Digits(n), 5)]

\* the random suffix of a put: a value no other put gets, or 0 for none
Suffix(random) == IF random THEN Len(writeRequests) + 1 ELSE 0

KeysIdle ==
    /\ jobKind = "client"
    /\ suffixDefault = FALSE
    /\ jobFrameCount = [j \in JobIds |-> 0]
    /\ jobFrameIdx = [j \in JobIds |-> 1]
    /\ writeRequests = <<>>

\* two jobs of one kind, each about to enter its upload loop
KeysInit ==
    /\ jobKind \in {"client", "server"}
    /\ suffixDefault \in BOOLEAN
    /\ jobFrameCount \in [JobIds -> 0..MaxClientFrames]
    /\ jobFrameIdx = [j \in JobIds |-> 1]
    /\ writeRequests = <<>>

\* the effect of one loop iteration on the job's loop position: a throw
\* leaves the loop
AfterWrite(j, thrown) ==
    jobFrameIdx' = [jobFrameIdx EXCEPT ![j] =
                       IF thrown THEN jobFrameCount[j] + 1 ELSE jobFrameIdx[j] + 1]

\* one iteration of the handleFiles frame loop of job j: the POST to the
\* upload route, whose put(filename, body, {access}) names no suffix policy
ClientJobWritesFrame(j) ==
    /\ jobKind = "client"
    /\ jobFrameIdx[j] <= jobFrameCount[j]
    /\ \E outcome \in {"ok", "status", "throw"} :
         /\ writeRequests' = Append(writeRequests,
                [job |-> j, pathname |-> ClientFramePath(jobFrameIdx[j]),
                 suffix |-> Suffix(suffixDefault)])
         /\ AfterWrite(j, outcome = "throw")
    /\ UNCHANGED <<jobKind, suffixDefault, jobFrameCount>>
    /\ UNCHANGED notKeys

\* one iteration of the server upload loop of job j: put with
\* addRandomSuffix: true
ServerJobWritesFrame(j) ==
    /\ jobKind = "server"
    /\ jobFrameIdx[j] <= jobFrameCount[j]
    /\ \E ok \in BOOLEAN :
         /\ writeRequests' = Append(writeRequests,
                [job |-> j, pathname |-> ServerFramePath(jobFrameIdx[j]),
                 suffix |-> Suffix(TRUE)])
         /\ AfterWrite(j, ~ok)
    /\ UNCHANGED <<jobKind, suffixDefault, jobFrameCount>>
    /\ UNCHANGED notKeys

KeysNext ==
    \/ \E j \in JobIds : ClientJobWritesFrame(j)
    \/ \E j \in JobIds : ServerJobWritesFrame(j)

\* ------------------------------ removal of one job's workspace, repeated
\* A path is the sequence of its components; os.tmpdir() is <<"tmp">>.
TmpRoot == <<"tmp">>

\* the directory fs.mkdtemp(join(tmpdir(), 'athai-')) gave this job
WorkspaceDir == <<"tmp", "athai-job">>

\* the directory mkdtemp gave another job: the random part differs
OtherWorkspaceDir == <<"tmp", "athai-other">>

\* the files a job may have in its directory
WorkspaceFiles == {"input-video.mp4", "frame_00001.jpg", "frame_00002.jpg"}

\* path p is dir or lies below dir
IsUnder(p, dir) == Len(p) >= Len(dir) /\ SubSeq(p, 1, Len(dir)) = dir

\* the possible results of fs.rm(target, {recursive: true, force}): a missing
\* target is an error unless force is set; an existing one is removed with
\* everything below it, or the call throws after removing some of the files
\* below it
RmOutcomes(paths, target, force) ==
    IF target \notin paths
      THEN {[paths |-> paths, threw |-> ~force]}
      ELSE {[paths |-> {p \in paths : ~IsUnder(p, target)}, threw |-> FALSE]}
           \cup {[paths |-> paths \ gone, threw |-> TRUE] :
                    gone \in SUBSET {p \in paths : IsUnder(p, target) /\ p # target}}

CleanupIdle ==
    /\ fsPaths = {TmpRoot}
    /\ cleanupLog = <<>>
    /\ cleanupRaised = FALSE

\* the file system when a job with tmpDir set reaches its removal block:
\* its directory with some files (or already gone), and what else is in
\* os.tmpdir()
CleanupInit ==
    /\ \E own \in SUBSET WorkspaceFiles, there \in BOOLEAN,
          others \in SUBSET {OtherWorkspaceDir, Append(OtherWorkspaceDir, "input-video.mp4")} :
         /\ (Append(OtherWorkspaceDir, "input-video.mp4") \in others
               => OtherWorkspaceDir \in others)
         /\ fsPaths = {TmpRoot} \cup others
                      \cup (IF there
                              THEN {WorkspaceDir} \cup {Append(WorkspaceDir, f) : f \in own}
                              ELSE {})
    /\ cleanupLog = <<>>
    /\ cleanupRaised = FALSE

\* CleanupWorkspace, had fs.rm been called without force and outside a try
CleanupWorkspace_Bare ==
    /\ Len(cleanupLog) < MaxCleanups
    /\ \E r \in RmOutcomes(fsPaths, WorkspaceDir, FALSE) :
         /\ fsPaths' = r.paths
         /\ cleanupLog' = Append(cleanupLog, [existed |-> WorkspaceDir \in fsPaths,
                                              threw |-> r.threw])
         /\ cleanupRaised' = (cleanupRaised \/ r.threw)
    /\ UNCHANGED notCleanup

\* if (tmpDir) { try { await fs.rm(tmpDir, {recursive: true, force: true}) }
\* catch (e) { warn } }, for a job whose tmpDir is WorkspaceDir
CleanupWorkspace ==
    /\ Len(cleanupLog) < MaxCleanups
    /\ \E r \in RmOutcomes(fsPaths, WorkspaceDir, TRUE) :
         /\ fsPaths' = r.paths
         /\ cleanupLog' = Append(cleanupLog, [existed |-> WorkspaceDir \in fsPaths,
                                              threw |-> r.threw])
    /\ UNCHANGED cleanupRaised
    /\ UNCHANGED notCleanup

CleanupNext == CleanupWorkspace

\* ------------------------------------ the upload page and its list of files
\* A File object is named by a number: the k-th file of the FileList is k,
\* and the File that handleTrimComplete builds from file k is TrimmedFile(k).
TrimmedOffset == 10
TrimmedFile(f) == f + TrimmedOffset
IsTrimmed(f) == f > TrimmedOffset

\* what validateFile finds: a file that is neither image nor video ("other"),
\* an image, a video that fails to load ("badvideo"), a video of at most 5 s
\* ("short"), a longer video ("long")
FileKinds == {"other", "image", "badvideo", "short", "long"}

\* the kinds for which validateFile waits for an event of a video element;
\* for the others it returns without waiting
VideoKinds == {"badvideo", "short", "long"}

\* the kind of a File object; a trimmed file is a video of at most 5 s
KindOf(f) == IF IsTrimmed(f) THEN "short" ELSE batch[f]

\* an UploadedFile with only `file` set
BlankEntry(f) ==
    [file |-> f, url |-> 0, uploading |-> FALSE, error |-> "unset",
     needsTrimming |-> FALSE, trimming |-> FALSE, processingFrames |-> FALSE]

\* ValidationOutcome, had validateFile not looked at the duration
ValidationOutcome_NoDurationCheck(f) ==
    CASE batch[f] \in {"other", "badvideo"} -> "error"
      [] OTHER -> "upload"

\* the entry handleFiles pushes for file f, or "upload" where it pushes
\* { file, uploading: true } and calls uploadToBlob
ValidationOutcome(f) ==
    CASE batch[f] \in {"other", "badvideo"} -> "error"
      [] batch[f] = "long" -> IF pageKind = "trimming" THEN "needsTrimming" ELSE "error"
      [] OTHER -> "upload"

PushedEntry(f) ==
    CASE ValidationOutcome(f) = "error" -> [BlankEntry(f) EXCEPT !.error = "validation"]
      [] ValidationOutcome(f) = "needsTrimming" -> [BlankEntry(f) EXCEPT !.needsTrimming = TRUE]
      [] OTHER -> [BlankEntry(f) EXCEPT !.uploading = TRUE]

\* { ...f, <fields of patch> }: the entry with the fields of patch replaced
Spread(f, patch) == patch @@ f

\* prev.map(f => f.file === file ? { ...f, <patch> } : f)
MapByFile(list, file, patch) ==
    [i \in 1..Len(list) |-> IF list[i].file = file THEN Spread(list[i], patch) ELSE list[i]]

\* prev.map((f, i) => i === index ? { ...f, <patch> } : f)
MapByIndex(list, index, patch) ==
    [i \in 1..Len(list) |-> IF i = index THEN Spread(list[i], patch) ELSE list[i]]

\* prev.filter((_, i) => i !== index)
FilterOutIndex(list, index) ==
    [i \in 1..(Len(list) - 1) |-> IF i < index THEN list[i] ELSE list[i + 1]]

\* the update a settled chain applies, to the entry it selects by file
\* identity (handleFiles) or by list index (handleTrimComplete)
ApplyUpdate(u, patch) ==
    IF u.by = "file" THEN MapByFile(files, u.file, patch)
                     ELSE MapByIndex(files, u.index, patch)

\* the positions of file f in the list
PositionsOf(list, f) == {i \in 1..Len(list) : list[i].file = f}

PageIdle ==
    /\ pageKind = "frames"
    /\ batch = <<>>
    /\ batchIdx = 1
    /\ newFiles = <<>>
    /\ files = <<>>
    /\ inflight = {}
    /\ uploadsStarted = <<>>
    /\ recorded = <<>>

\* handleFiles has been called with a FileList on a page with an empty list
PageInit ==
    /\ pageKind \in {"frames", "trimming"}
    /\ \E n \in 1..MaxBatch : batch \in [1..n -> FileKinds]
    /\ batchIdx = 1
    /\ newFiles = <<>>
    /\ files = <<>>
    /\ inflight = {}
    /\ uploadsStarted = <<>>
    /\ recorded = <<>>

\* a callback of a network request or a click can run only while handleFiles
\* waits for an event: never between the start of the validation of a file
\* that validateFile answers without waiting and the next step of the loop
CanInterleave == IF batchIdx > Len(batch) THEN TRUE ELSE batch[batchIdx] \in VideoKinds

\* one iteration of the loop of handleFiles, from the result of validateFile
\* on: the push, the call of uploadToBlob for an accepted file and, after the
\* last file, setFiles(prev => [...prev, ...newFiles])
ValidateAndPush ==
    /\ batchIdx <= Len(batch)
    /\ LET f == batchIdx
           pushed == Append(newFiles, PushedEntry(f))
           starts == ValidationOutcome(f) = "upload"
       IN /\ newFiles' = pushed
          /\ inflight' = IF starts
                           THEN inflight \cup {[file |-> f, by |-> "file", index |-> 0,
                                                stage |-> "upload"]}
                           ELSE inflight
          /\ uploadsStarted' = IF starts THEN Append(uploadsStarted, f) ELSE uploadsStarted
          /\ files' = IF f = Len(batch) THEN files \o pushed ELSE files
    /\ batchIdx' = batchIdx + 1
    /\ UNCHANGED <<pageKind, batch, recorded>>
    /\ UNCHANGED notPage

\* uploadToBlob settles: .then records the url (and, on the frames page, for
\* a video, sets processingFrames and goes on to extract frames); .catch
\* records the error
PageUploadSettles(u) ==
    /\ u \in inflight
    /\ u.stage = "upload"
    /\ CanInterleave
    /\ \E ok \in BOOLEAN :
         LET done == [url |-> u.file, uploading |-> FALSE]
             proc == [url |-> u.file, uploading |-> FALSE, processingFrames |-> TRUE]
             failed == [error |-> "upload", uploading |-> FALSE]
             extracts == ok /\ pageKind = "frames" /\ KindOf(u.file) \in VideoKinds
         IN /\ files' = IF ~ok THEN ApplyUpdate(u, failed)
                        ELSE IF extracts THEN ApplyUpdate(u, proc)
                        ELSE ApplyUpdate(u, done)
            /\ inflight' = (inflight \ {u})
                           \cup (IF extracts THEN {[u EXCEPT !.stage = "frames"]} ELSE {})
    /\ recorded' = IF u.by = "index"
                     THEN Append(recorded,
                            [file |-> u.file,
                             onFile |-> IF u.index <= Len(files) THEN files[u.index].file ELSE 0,
                             listed |-> PositionsOf(files, u.file) # {}])
                     ELSE recorded
    /\ UNCHANGED <<pageKind, batch, batchIdx, newFiles, uploadsStarted>>
    /\ UNCHANGED notPage

\* the rest of the .then of the frames page settles: the final setFiles, or
\* the catch with 'Frame extraction failed'
FrameChainSettles(u) ==
    /\ u \in inflight
    /\ u.stage = "frames"
    /\ CanInterleave
    /\ \E ok \in BOOLEAN :
         LET done == [processingFrames |-> FALSE]
             failed == [processingFrames |-> FALSE, error |-> "frames"]
         IN files' = IF ok THEN ApplyUpdate(u, done) ELSE ApplyUpdate(u, failed)
    /\ inflight' = inflight \ {u}
    /\ UNCHANGED <<pageKind, batch, batchIdx, newFiles, uploadsStarted, recorded>>
    /\ UNCHANGED notPage

\* removeFile(index), from the entry's button or from the trimmer's cancel
RemoveFileAt(index) ==
    /\ index \in 1..Len(files)
    /\ CanInterleave
    /\ files' = FilterOutIndex(files, index)
    /\ UNCHANGED <<pageKind, batch, batchIdx, newFiles, inflight, uploadsStarted, recorded>>
    /\ UNCHANGED notPage

\* startTrimming(index), from the button shown for needsTrimming && !trimming
StartTrimming(index) ==
    /\ index \in 1..Len(files)
    /\ CanInterleave
    /\ files[index].needsTrimming
    /\ ~files[index].trimming
    /\ files' = MapByIndex(files, index, [trimming |-> TRUE])
    /\ UNCHANGED <<pageKind, batch, batchIdx, newFiles, inflight, uploadsStarted, recorded>>
    /\ UNCHANGED notPage

\* handleTrimComplete(index, trimmedBlob), from the trimmer shown for an
\* entry with trimming set
HandleTrimComplete(index) ==
    /\ index \in 1..Len(files)
    /\ CanInterleave
    /\ files[index].trimming
    /\ LET trimmedFile == TrimmedFile(files[index].file)
           patch == [file |-> trimmedFile, needsTrimming |-> FALSE,
                     uploading |-> TRUE, trimming |-> FALSE]
       IN /\ files' = MapByIndex(files, index, patch)
          /\ inflight' = inflight \cup {[file |-> trimmedFile, by |-> "index",
                                         index |-> index, stage |-> "upload"]}
          /\ uploadsStarted' = Append(uploadsStarted, trimmedFile)
    /\ UNCHANGED <<pageKind, batch, batchIdx, newFiles, recorded>>
    /\ UNCHANGED notPage

PageNext ==
    \/ ValidateAndPush
    \/ \E u \in inflight : PageUploadSettles(u)
    \/ \E u \in inflight : FrameChainSettles(u)
    \/ \E index \in 1..MaxBatch : RemoveFileAt(index)
    \/ \E index \in 1..MaxBatch : StartTrimming(index)
    \/ \E index \in 1..MaxBatch : HandleTrimComplete(index)

\* ------------------------------------------------------ the video trimmer
\* Times of the trimmer are multiples of 0.1 s, the step of its slider.
TenthsPerSecond == 10

\* the 5 seconds of the segment, in tenths of a second
SegmentLength == 5 * TenthsPerSecond

\* the durations of the files drawn, in tenths of a second: 0 s, 3 s, 4.9 s,
\* 5 s, 5.1 s, 6 s, 7.5 s, 10 s and 12 s
TrimmerDurations == {0, 30, 49, 50, 51, 60, 75, 100, 120}

\* the values passed to handleStartTimeChange, in tenths of a second: below
\* 0, inside the video and beyond its end
StartValues == {-10, 0, 1, 10, 25, 26, 50, 70, 71, 130}

\* useState(0), useState(0), useState(5), useState(0): a trimmer that has
\* just been mounted; with `file` a video of 12 s where no trimmer is of
\* interest
TrimmerIdle ==
    /\ videoDuration = 120
    /\ metadataLoaded = FALSE
    /\ trimDuration = 0
    /\ startTime = 0
    /\ endTime = SegmentLength
    /\ trimCurrentTime = 0
    /\ startTimeChanges = 0

\* a trimmer that has just been mounted for a video file
TrimmerInit ==
    /\ videoDuration \in TrimmerDurations
    /\ metadataLoaded = FALSE
    /\ trimDuration = 0
    /\ startTime = 0
    /\ endTime = SegmentLength
    /\ trimCurrentTime = 0
    /\ startTimeChanges = 0

\* handleLoadedMetadata: setDuration(video.duration),
\* setEndTime(Math.min(5, video.duration))
HandleLoadedMetadata ==
    /\ ~metadataLoaded
    /\ metadataLoaded' = TRUE
    /\ trimDuration' = videoDuration
    /\ endTime' = Min(SegmentLength, videoDuration)
    /\ UNCHANGED <<videoDuration, startTime, trimCurrentTime, startTimeChanges>>
    /\ UNCHANGED notTrimmer

\* NewStartTime, had the value been held at 0 from below only
NewStartTime_NoUpperClamp(value, d) == Max(0, value)

\* Math.max(0, Math.min(value, duration - 5))
NewStartTime(value, d) == Max(0, Min(value, d - SegmentLength))

\* handleStartTimeChange(value): setStartTime, setEndTime, and handleSeek
\* with its setCurrentTime
HandleStartTimeChange(value) ==
    /\ startTimeChanges < MaxStartTimeChanges
    /\ startTimeChanges' = startTimeChanges + 1
    /\ startTime' = NewStartTime(value, trimDuration)
    /\ endTime' = NewStartTime(value, trimDuration) + SegmentLength
    /\ trimCurrentTime' = NewStartTime(value, trimDuration)
    /\ UNCHANGED <<videoDuration, metadataLoaded, trimDuration>>
    /\ UNCHANGED notTrimmer

TrimmerNext ==
    \/ HandleLoadedMetadata
    \/ \E value \in StartValues : HandleStartTimeChange(value)

\* --------------------------------------------------------- specifications
\* one server job; no extraction and no client job is running
InitServerJob ==
    /\ ServerInit /\ RequestInit /\ ExtractIdle /\ ClientIdle /\ KeysIdle /\ CleanupIdle /\ PageIdle
    /\ TrimmerIdle

SpecServer == InitServerJob /\ [][ServerNext]_vars

\* one extractVideoFrames call
InitExtraction ==
    /\ ExtractInit /\ ServerInit /\ ClientIdle /\ KeysIdle /\ CleanupIdle /\ RequestIdle /\ PageIdle
    /\ TrimmerIdle

SpecExtract == InitExtraction /\ [][ExtractNext]_vars

\* one client job
InitClientJob ==
    /\ ClientInit /\ ServerInit /\ ExtractIdle /\ KeysIdle /\ CleanupIdle /\ RequestIdle /\ PageIdle
    /\ TrimmerIdle

SpecClient == InitClientJob /\ [][ClientNext]_vars

\* one client job together with the extractVideoFrames call it makes
InitPipeline ==
    /\ PipelineInit /\ ServerInit /\ KeysIdle /\ CleanupIdle /\ RequestIdle /\ PageIdle
    /\ TrimmerIdle

SpecPipeline == InitPipeline /\ [][PipelineNext]_vars

\* one server job and one client job side by side
InitJobs ==
    /\ ServerInit /\ ExtractIdle /\ ClientInit /\ KeysIdle /\ CleanupIdle /\ RequestIdle /\ PageIdle
    /\ TrimmerIdle

SpecJobs == InitJobs /\ [][ServerNext \/ ClientNext]_vars

\* two jobs of the same kind writing their frames at the same time
InitKeys ==
    /\ KeysInit /\ ServerInit /\ ExtractIdle /\ ClientIdle /\ CleanupIdle /\ RequestIdle /\ PageIdle
    /\ TrimmerIdle

SpecKeys == InitKeys /\ [][KeysNext]_vars

\* the removal of one job's workspace, invoked up to MaxCleanups times
InitCleanup ==
    /\ CleanupInit /\ ServerInit /\ ExtractIdle /\ ClientIdle /\ KeysIdle /\ RequestIdle /\ PageIdle
    /\ TrimmerIdle

SpecCleanup == InitCleanup /\ [][CleanupNext]_vars

\* one handleFiles call on the upload page, and what the user and the
\* network do afterwards
InitPage ==
    /\ PageInit /\ ServerInit /\ ExtractIdle /\ ClientIdle /\ KeysIdle /\ CleanupIdle /\ RequestIdle
    /\ TrimmerIdle

SpecPage == InitPage /\ [][PageNext]_vars

\* one video trimmer, from its mounting on
InitTrimmer ==
    /\ TrimmerInit /\ ServerInit /\ ExtractIdle /\ ClientIdle /\ KeysIdle /\ CleanupIdle
    /\ RequestIdle /\ PageIdle

SpecTrimmer == InitTrimmer /\ [][TrimmerNext]_vars

\* ------------------------------------------------- properties: server job
\* the put(...) calls that threw
FailedPuts == {i \in 1..Len(puts) : ~puts[i].ok}

\* the errors of the download stage: malformed locator, network error,
\* non-success status, body read error
FetchFaults == {"url", "network", "http", "body"}

\* C1: once the server job is terminal, a scratch directory it created no
\* longer exists, on every exit path, unless the fs.rm call itself threw.
C1_ScratchDirGone ==
    (pc = "done" /\ tmpDir # "undefined" /\ ~rmFailed) => ~dirExists

\* a terminal state of a failed job whose directory was created and removed
C1_Witness ==
    /\ pc = "done"
    /\ tmpDir # "undefined"
    /\ response.status = 500
    /\ rmCalls = 1
    /\ ~rmFailed
    /\ ~dirExists

\* C2: when the put of one frame throws, a put is still issued for every
\* later frame of the listing and the job answers with an outcome (status
\* 200), not with a fatal failure.
C2_UploadsContinue ==
    (pc = "done" /\ fault = "put") =>
        /\ Len(puts) = Len(frameFiles)
        /\ response.status = 200

\* C3: when k of the N frame puts fail, 0 < k < N, the response reports
\* N - k succeeded frames and is not the failure response.
C3_PartialSuccess ==
    (/\ pc = "done"
     /\ Cardinality(FailedPuts) > 0
     /\ Cardinality(FailedPuts) < Len(frameFiles)) =>
        /\ response.status = 200
        /\ response.framesExtracted = Len(frameFiles) - Cardinality(FailedPuts)
        /\ Len(response.frames) = Len(frameFiles) - Cardinality(FailedPuts)

\* C4: a terminal job that downloaded the source video has issued a delete
\* of the source blob.
C4_SourceDeleteIssued ==
    (pc = "done" /\ srcFetched) => delCalls >= 1

\* C9: when the download fails (malformed locator, network error, non-success
\* status, unreadable body) the job answers 500, the scratch directory is
\* never created, ffmpeg is never run, no frame is put and no delete of the
\* source is issued.
C9_FetchFailureIsFatal ==
    (fault \in FetchFaults) =>
        /\ tmpDir = "undefined"
        /\ ~dirExists
        /\ rmCalls = 0
        /\ ffmpegRuns = 0
        /\ puts = <<>>
        /\ delCalls = 0
        /\ ~srcDeleted
        /\ pc \in {"catch", "finally", "done"}
        /\ (pc = "done" => response.status = 500)

\* a terminal job whose download got a non-success status
C9_Witness ==
    /\ pc = "done"
    /\ fault = "http"
    /\ response.status = 500

\* C10 as stated: when ffmpeg emits an error, no frame is put, the job
\* answers with a failure and the scratch directory is gone at the end.
C10_SamplingFailure_Original ==
    (pc = "done" /\ fault = "ffmpeg") =>
        /\ puts = <<>>
        /\ response.status = 500
        /\ ~dirExists

\* C10 as amended: when ffmpeg emits an error, no frame is put, the job
\* answers with a failure, and the removal of the scratch directory is
\* invoked once; the directory is gone unless that removal itself threw.
C10_SamplingFailure ==
    (pc = "done" /\ fault = "ffmpeg") =>
        /\ puts = <<>>
        /\ frameUrls = <<>>
        /\ response.status = 500
        /\ response.frames = <<>>
        /\ rmCalls = 1
        /\ (~rmFailed => ~dirExists)

\* a terminal job whose ffmpeg run failed after writing some frame files
C10_Witness ==
    /\ pc = "done"
    /\ fault = "ffmpeg"
    /\ ffmpegRuns = 1
    /\ ~dirExists

\* ------------------------------------------- properties: extractVideoFrames
\* C5: the list extractVideoFrames resolves with has
\* min(ceil(duration * fps), maxFrames) frames, and none only for duration 0.
C5_FrameCount ==
    (promise = "resolved" /\ xpc = "finished") =>
        /\ Len(frames) = Min(CeilFrames(duration, fps), maxFrames)
        /\ (Len(frames) = 0 => duration = 0)

\* C6: the frameNumber values of the resolved list are exactly 1..N, also
\* when the encoder gave no blob for some sample.
C6_OrdinalsContiguous ==
    (promise = "resolved" /\ xpc = "finished") =>
        \A i \in 1..Len(frames) : frames[i].frameNumber = i

\* C7: timestamps never decrease along the frame list, clamped samples
\* included.
C7_TimestampsMonotone ==
    \A i \in 1..(Len(frames) - 1) : frames[i].timestamp <= frames[i + 1].timestamp

\* a resolved list of at least two frames whose last sample was clamped to
\* duration - 0.001
C7_Witness ==
    /\ promise = "resolved"
    /\ xpc = "finished"
    /\ Len(frames) >= 2
    /\ frames[Len(frames)].timestamp = duration - Epsilon
    /\ currentTime - FrameInterval(fps) > duration - Epsilon

\* C8: for a duration > 0 no frame has a timestamp >= duration and every
\* time assigned to video.currentTime is in [0, duration).
C8_SeeksInRange ==
    (duration > 0) =>
        /\ \A i \in 1..Len(frames) : frames[i].timestamp < duration
        /\ \A i \in 1..Len(seeks) : seeks[i] >= 0 /\ seeks[i] < duration

\* ------------------------------------------------ properties: job outcomes
\* C11: a job whose sampler resolved with no frame for a source of
\* duration > 0 ends with an error recorded, never as a success with an
\* empty frame list.
C11_ZeroFramesIsFailure ==
    (cpc = "done" /\ listed /\ duration > 0 /\ promise = "resolved" /\ Len(frames) = 0) =>
        entry.error # "unset"

\* C12: the frame list of the success response is in ascending frame
\* ordinal order, whatever the order of the directory listing.
C12_FrameUrlsAscending ==
    (response.status = 200) =>
        \A i, j \in 1..Len(response.frames) :
            i < j => response.frames[i] < response.frames[j]

\* the success response of the server job for the frames uploaded
SuccessResponse ==
    [status |-> 200, frames |-> frameUrls, framesExtracted |-> Len(frameUrls)]

\* C13: once the delete of the source has been issued, the outcome is the
\* success outcome built from the uploaded frames, whether or not the delete
\* failed: in the server job the 200 response with every frame, in the
\* client job the entry with the uploaded frame list and no error.
C13_DeleteIsBestEffort ==
    /\ (pc \in {"finally", "done"} /\ delCalls >= 1) =>
          /\ response = SuccessResponse
          /\ Len(frameUrls) = Len(frameFiles)
          /\ fault = "none"
    /\ (cpc = "done" /\ deleteRequests >= 1 /\ listed) =>
          /\ entry.error = "unset"
          /\ ~entry.processingFrames
          /\ entry.extractedFrames = clientFrameUrls
          /\ entry.framesExtracted = Len(clientFrameUrls)

\* both jobs are terminal, each with uploaded frames and a failed delete
C13_Witness ==
    /\ pc = "done"
    /\ delCalls = 1
    /\ ~srcDeleted
    /\ Len(response.frames) >= 2
    /\ cpc = "done"
    /\ listed
    /\ deleteRequests = 1
    /\ deleteFailed
    /\ Len(entry.extractedFrames) >= 2

\* the outcome the try and catch blocks leave for the finally block
OutcomeDetermined ==
    \/ response = SuccessResponse /\ fault = "none"
    \/ response = [NoResponse EXCEPT !.status = 500] /\ fault # "none"
    \/ response = [NoResponse EXCEPT !.status = 400] /\ fault = "none"

\* C14: the finally block never changes the response: the outcome with which
\* the job entered it is the outcome returned, also when fs.rm throws, and
\* the handler then ends normally.
C14_CleanupFailureKeepsOutcome ==
    /\ [](pc \in {"finally", "done"} => OutcomeDetermined)
    /\ [][pc = "finally" => (pc' = "done" /\ response' = response /\ fault' = fault)]_vars

\* a successful job with frames whose directory removal threw
C14_Witness ==
    /\ pc = "done"
    /\ rmFailed
    /\ rmCalls = 1
    /\ response.status = 200
    /\ Len(response.frames) >= 1

\* C15: fs.rm is invoked exactly once in every job that created the scratch
\* directory, by the step that ends the job: no ffmpeg run and no put
\* follows it.
C15_ReleasedExactlyOnce ==
    /\ [](rmCalls <= 1)
    /\ []((pc = "done" /\ tmpDir # "undefined") => rmCalls = 1)
    /\ [](rmCalls >= 1 => pc = "done")
    /\ [][rmCalls' # rmCalls => (pc = "finally" /\ pc' = "done" /\ rmCalls' = rmCalls + 1)]_vars
    /\ [][rmCalls >= 1 => (puts' = puts /\ ffmpegRuns' = ffmpegRuns)]_vars

\* a job that failed in the upload loop and removed its directory once
C15_Witness ==
    /\ pc = "done"
    /\ fault = "put"
    /\ Len(puts) >= 2
    /\ rmCalls = 1

\* the download has been started (it has succeeded or failed)
DownloadStarted == srcFetched \/ fault \in {"network", "http", "body"}

\* C16 as stated: the scratch directory has been created by the time the
\* download is started and by the time ffmpeg is started.
C16_CreatedBeforeFetch_Original ==
    /\ DownloadStarted => tmpDir # "undefined"
    /\ ffmpegRuns >= 1 => tmpDir # "undefined"

\* C16 as amended: the scratch directory is created at most once, after the
\* download has succeeded and before ffmpeg is started.
C16_CreatedOnceBeforeSampling ==
    /\ []((tmpDir # "undefined" \/ dirExists) => srcFetched)
    /\ [](ffmpegRuns >= 1 => tmpDir # "undefined")
    /\ [](pc = "ffmpeg" => (tmpDir # "undefined" /\ dirExists /\ ffmpegRuns = 0))
    /\ [][(~dirExists /\ dirExists') => (tmpDir = "undefined" /\ tmpDir' # "undefined")]_vars
    /\ [][tmpDir # "undefined" => tmpDir' = tmpDir]_vars

\* ffmpeg has run in the directory created after the download
C16_Witness ==
    /\ ffmpegRuns = 1
    /\ srcFetched
    /\ tmpDir # "undefined"
    /\ dirExists

\* the phase of the server job at a position of the handler
ServerPhase(p) ==
    CASE p \in {"start", "validate"} -> 0
      [] p \in {"fetch", "mkdtemp", "writeFile"} -> 1
      [] p = "ffmpeg" -> 2
      [] p \in {"readdir", "upload", "del"} -> 3
      [] p \in {"catch", "finally"} -> 4
      [] p = "done" -> 5

\* the phase of the client job at a position of the promise chain
ClientPhase(p) ==
    CASE p = "uploadToBlob" -> 0
      [] p = "extract" -> 2
      [] p = "frameUpload" -> 3
      [] p = "delete" -> 4
      [] p = "done" -> 5

\* C17: the phase of a job never goes back; frames are put only after the
\* single ffmpeg run has ended, and ffmpeg is not run once a put was issued;
\* the client job issues frame uploads only after the extraction settled.
C17_PhasesForward ==
    /\ [][ServerPhase(pc') >= ServerPhase(pc)]_vars
    /\ [][ClientPhase(cpc') >= ClientPhase(cpc)]_vars
    /\ [](ffmpegRuns <= 1)
    /\ [](puts # <<>> => (ffmpegRuns = 1 /\ ServerPhase(pc) >= 3))
    /\ [][puts # <<>> => ffmpegRuns' = ffmpegRuns]_vars
    /\ [](uploadRequests # <<>> => ClientPhase(cpc) >= 3)

\* both jobs went through every phase
C17_Witness ==
    /\ pc = "done"
    /\ response.status = 200
    /\ Len(puts) >= 2
    /\ cpc = "done"
    /\ Len(uploadRequests) >= 2
    /\ deleteRequests = 1

\* ------------------------------------------- properties: extractVideoFrames
\* C18: at most one seek is outstanding: the number of seeks issued exceeds
\* the number of toBlob callbacks run by at most one, and a seek is issued
\* only by onloadedmetadata or by a toBlob callback, one at a time.
C18_SeeksSequential ==
    /\ [](Len(seeks) <= frameNumber + 1)
    /\ [](xpc \in {"seeking", "encoding"} => Len(seeks) = frameNumber + 1)
    /\ [][seeks' # seeks => /\ Len(seeks') = Len(seeks) + 1
                            /\ xpc \in {"loading", "encoding"}
                            /\ xpc' = "seeking"]_vars

\* the third seek is outstanding after two toBlob callbacks
C18_Witness ==
    /\ xpc = "seeking"
    /\ frameNumber = 2
    /\ Len(seeks) = 3

\* ------------------------------------------------ properties: cancellation
\* C19: once the file's entry has been removed from the list, no further
\* seek and no further frame upload is issued for the job.
C19_CancelStopsWork ==
    [][~listed => (seeks' = seeks /\ uploadRequests' = uploadRequests)]_vars

\* ------------------------------------------------ properties: storage keys
\* the storage key of a write: the pathname and the suffix added to it
StorageKey(r) == [pathname |-> r.pathname, suffix |-> r.suffix]

\* C20: two jobs running at the same time never request a frame write under
\* the same storage key.
C20_JobScopedKeys ==
    \A a, b \in 1..Len(writeRequests) :
        writeRequests[a].job # writeRequests[b].job =>
            StorageKey(writeRequests[a]) # StorageKey(writeRequests[b])

\* ------------------------------------------- properties: extractVideoFrames
\* C21: an error of the video element at any point, also before its metadata
\* has loaded, rejects the promise, and a call that can take no further step
\* has settled its promise.
C21_ErrorRejects ==
    /\ errored => promise = "rejected"
    /\ xpc \in {"finished", "hung"} => promise \in {"resolved", "rejected"}

\* ------------------------------------------- properties: workspace removal
\* C22: the removal of a job's workspace can be invoked again: no invocation
\* lets an error escape, an invocation that finds the directory gone changes
\* nothing and does not throw, and no invocation removes a path outside the
\* job's directory.
C22_CleanupIdempotent ==
    /\ [](~cleanupRaised)
    /\ [](\A i \in 1..Len(cleanupLog) : ~cleanupLog[i].existed => ~cleanupLog[i].threw)
    /\ [][WorkspaceDir \notin fsPaths => fsPaths' = fsPaths]_vars
    /\ [][\A p \in fsPaths : ~IsUnder(p, WorkspaceDir) => p \in fsPaths']_vars

\* the removal ran twice, the second time with the directory already gone,
\* while another job's directory and file are still there
C22_Witness ==
    /\ Len(cleanupLog) = 2
    /\ cleanupLog[1].existed
    /\ ~cleanupLog[1].threw
    /\ ~cleanupLog[2].existed
    /\ Append(OtherWorkspaceDir, "input-video.mp4") \in fsPaths
    /\ WorkspaceDir \notin fsPaths

\* ------------------------------------------------ properties: job outcomes
\* C23: for a source of duration 0 the sampler resolves with an empty list
\* as soon as the metadata has loaded, without any seek, and the client job
\* then ends with no error, an empty frame list and the delete of the source
\* requested.
C23_ZeroDurationSucceeds ==
    /\ [][(duration = 0 /\ xpc = "loading" /\ xpc' \notin {"loading", "hung"}) =>
             (promise' = "resolved" /\ xpc' = "finished")]_vars
    /\ []((duration = 0 /\ promise = "resolved") => (frames = <<>> /\ seeks = <<>>))
    /\ []((duration = 0 /\ promise = "resolved" /\ cpc = "done") => deleteRequests = 1)
    /\ []((duration = 0 /\ promise = "resolved" /\ cpc = "done" /\ listed) =>
             /\ entry.error = "unset"
             /\ entry.url = "video"
             /\ ~entry.uploading
             /\ ~entry.processingFrames
             /\ entry.extractedFrames = <<>>
             /\ entry.framesExtracted = 0)

\* a finished client job for a source of duration 0
C23_Witness ==
    /\ duration = 0
    /\ promise = "resolved"
    /\ seeks = <<>>
    /\ cpc = "done"
    /\ listed
    /\ deleteRequests = 1
    /\ entry.framesExtracted = 0

\* ------------------------------------------- properties: extractVideoFrames
\* C24: the i-th seek, counted from 0, requests min(i / fps, duration - 0.001);
\* a 3-second source at fps 1 whose samples all give a blob resolves with 3
\* frames, at 0, 1 and 2 seconds.
C24_SeekTimes ==
    /\ \A i \in 1..Len(seeks) :
          seeks[i] = Min((i - 1) * FrameInterval(fps), duration - Epsilon)
    /\ (/\ duration = 3 * TicksPerSecond
        /\ fps = 1
        /\ maxFrames >= 3
        /\ promise = "resolved"
        /\ Len(frames) = frameNumber) =>
           /\ Len(frames) = 3
           /\ frames[1].timestamp = 0
           /\ frames[2].timestamp = TicksPerSecond
           /\ frames[3].timestamp = 2 * TicksPerSecond

\* the 3-second source at fps 1 has been sampled at 0, 1 and 2 seconds
C24_Witness ==
    /\ duration = 3 * TicksPerSecond
    /\ fps = 1
    /\ promise = "resolved"
    /\ seeks = <<0, TicksPerSecond, 2 * TicksPerSecond>>
    /\ Len(frames) = 3
    /\ frames[3].timestamp = 2 * TicksPerSecond

\* ------------------------------------------------ properties: storage keys
\* the frame writes of job j, in the order issued
JobWrites(j) == SelectSeq(writeRequests, LAMBDA r : r.job = j)

\* C25: under both strategies the write of a job's frame with ordinal n names
\* the key folder/frame_NNNNN.jpg, NNNNN being n padded with zeros to 5 digits.
C25_FiveDigitKeys ==
    \A j \in JobIds : \A n \in 1..Len(JobWrites(j)) :
        /\ JobWrites(j)[n].pathname.folder = "frames"
        /\ JobWrites(j)[n].pathname.name = PadStart(Digits(n), 5)

\* ------------------------------------------------- properties: frame count
\* the frame files the ffmpeg run of the server job has written
FramesOnDisk == {f \in dirEntries : IsFrameFile(f)}

\* C26: a job never produces or uploads more frames than its configured
\* maximum frame count: the sampler of the client job resolves with at most
\* options.maxFrames frames, and the server job neither writes nor puts more
\* frames than the maximum named in its request.
C26_WithinMaxFrames ==
    /\ Len(frames) <= maxFrames
    /\ Len(uploadRequests) <= maxFrames
    /\ Cardinality(FramesOnDisk) <= bodyMaxFrames
    /\ Len(puts) <= bodyMaxFrames
    /\ (response.status = 200 => response.framesExtracted <= bodyMaxFrames)

\* ------------------------------------------------ properties: upload page
\* the upload handleFiles started for file f has settled
UploadSettled(f) ==
    /\ f < batchIdx
    /\ ValidationOutcome(f) = "upload"
    /\ \A u \in inflight : ~(u.file = f /\ u.stage = "upload")

\* C27: once the upload handleFiles started for an accepted file has
\* settled and the batch has been appended, the file's entry has uploading
\* false and the url or the error recorded, also when the upload settled
\* while the rest of the batch was still being validated.
C27_UploadResultRecorded ==
    \A i \in 1..Len(files) :
        (~IsTrimmed(files[i].file) /\ UploadSettled(files[i].file)) =>
            /\ ~files[i].uploading
            /\ (files[i].url # 0 \/ files[i].error # "unset")

\* C28: the result of the upload started by handleTrimComplete is recorded
\* on the entry of the trimmed file and on no other entry, also when entries
\* have been removed in the meantime; it is recorded nowhere only when the
\* trimmed file's entry is no longer in the list.
C28_TrimResultOnOwnEntry ==
    \A k \in 1..Len(recorded) :
        \/ recorded[k].onFile = recorded[k].file
        \/ recorded[k].onFile = 0 /\ ~recorded[k].listed

\* C29: no entry has error set while uploading or processingFrames is true,
\* no entry has uploading true together with processingFrames or
\* needsTrimming, and processingFrames is true only with the url set.
C29_StatusFieldsConsistent ==
    \A i \in 1..Len(files) :
        /\ files[i].error # "unset" => (~files[i].uploading /\ ~files[i].processingFrames)
        /\ files[i].uploading => (~files[i].processingFrames /\ ~files[i].needsTrimming)
        /\ files[i].processingFrames => files[i].url # 0

\* ------------------------------------------------- properties: server job
\* the frame files for which a put has succeeded
UploadedFiles == {puts[i].file : i \in {k \in 1..Len(puts) : puts[k].ok}}

OriginalOf(f) == IF IsTrimmed(f) THEN f - TrimmedOffset ELSE f

\* C31: no file that fails validation is handed to uploadToBlob: a file of
\* the list is uploaded only if it is an image or a video of at most 5 s;
\* a longer video is never uploaded itself, and its trimmed file is uploaded
\* only on the trimming page, by the completion of a trim of its entry.
C31_NoUploadOfInvalidFile ==
    /\ [](\A k \in 1..Len(uploadsStarted) :
            LET f == uploadsStarted[k] IN
            IF IsTrimmed(f)
              THEN pageKind = "trimming" /\ batch[OriginalOf(f)] = "long"
              ELSE batch[f] \in {"image", "short"})
    /\ [][uploadsStarted' # uploadsStarted =>
            LET f == uploadsStarted'[Len(uploadsStarted')] IN
            /\ uploadsStarted' = Append(uploadsStarted, f)
            /\ IsTrimmed(f) =>
                 \E i \in 1..Len(files) :
                     /\ files[i].trimming
                     /\ files[i].file = OriginalOf(f)
                     /\ files'[i].file = f]_vars

\* on the trimming page a rejected video was never uploaded and the trimmed
\* file of a long video is the only upload
C31_Witness ==
    /\ pageKind = "trimming"
    /\ batch = <<"badvideo", "long">>
    /\ uploadsStarted = <<TrimmedFile(2)>>

\* ------------------------------------------------- properties: server job
\* the job has touched nothing outside the handler: no download, no scratch
\* directory, no ffmpeg run, no put, no delete, no removal
NoSideEffects ==
    /\ ~srcFetched
    /\ tmpDir = "undefined"
    /\ ~dirExists
    /\ dirEntries = {}
    /\ ffmpegRuns = 0
    /\ puts = <<>>
    /\ delCalls = 0
    /\ ~srcDeleted
    /\ rmCalls = 0

\* C32: a request whose body names no url is answered with status 400,
\* straight from the start of the handler, and has no side effect: no
\* download, no scratch directory, no ffmpeg run, no put, no delete. (A body
\* that cannot be read at all is answered with status 500, also without any
\* side effect.)
C32_MissingUrlNoSideEffects ==
    /\ [](response.status = 400 =>
            (NoSideEffects /\ fault = "none" /\ pc \in {"finally", "done"}))
    /\ [](fault = "json" => (NoSideEffects /\ (pc = "done" => response.status = 500)))
    /\ [][(response'.status = 400 /\ response.status # 400) =>
            (pc = "start" /\ pc' = "finally")]_vars

\* a finished job that answered 400
C32_Witness ==
    /\ pc = "done"
    /\ response.status = 400
    /\ fault = "none"
    /\ rmCalls = 0

\* the puts issued for file f
PutsOf(f) == {i \in 1..Len(puts) : puts[i].file = f}

\* C34: only frame files are put to storage, each at most once: the
\* downloaded source written into the scratch directory is never put, and
\* when the upload loop has ended without a failure every frame file in the
\* directory has been put exactly once.
C34_OnlySamplerOutputUploaded ==
    /\ PutsOf(InputFile) = {}
    /\ \A i \in 1..Len(puts) : IsFrameFile(puts[i].file) /\ Cardinality(PutsOf(puts[i].file)) = 1
    /\ (pc = "del" =>
          /\ FailedPuts = {}
          /\ \A f \in dirEntries : IsFrameFile(f) => Cardinality(PutsOf(f)) = 1)
    /\ (response.status = 200 => Len(puts) = Len(frameFiles) /\ FailedPuts = {})

\* the upload loop has put all three frame files and the source file is
\* still in the directory
C34_Witness ==
    /\ pc = "del"
    /\ InputFile \in dirEntries
    /\ Len(puts) = 3
    /\ Cardinality(FramesOnDisk) = 3

====
